---------------------------- MODULE Spec2Model ----------------------------
(***************************************************************************)
(* A model of generate_stats.py: main() runs fetch_events, compute_stats   *)
(* and generate_svg in sequence.  Python values are tagged records, a dict *)
(* is a function from its keys, and an uncaught exception ends the run in  *)
(* pc = "raised".                                                          *)
(***************************************************************************)
EXTENDS Integers, Sequences, FiniteSets, TLC

VARIABLES
    username,         \* fetch_events / generate_svg argument
    year,             \* fetch_events / generate_svg argument
    max_pages,        \* fetch_events argument
    feed,             \* the remote feed: a sequence of pages of events
    pc,               \* the position of the run
    page,             \* fetch_events: the loop variable of line 34
    page_events,      \* fetch_events: resp.json() of the current page
    idx,              \* fetch_events: position of the inner loop of line 51
    events_for_year,  \* fetch_events: the accumulator of line 32
    requests,         \* the session.get calls so far, each with its outcome
    error,            \* the exception that ended the run, or "none"
    events,           \* main / compute_stats: the list being aggregated
    stats,            \* compute_stats: the counters
    i,                \* compute_stats: position of the loop of line 84
    file,             \* the content of stats.svg, <<>> while not written
    total,            \* activity ring: stats["total_events"] handed to it
    ring              \* activity ring: the rendered indicator

vars == <<username, year, max_pages, feed, pc, page, page_events, idx,
          events_for_year, requests, error, events, stats, i, file,
          total, ring>>

---------------------------------------------------------------------------
(* Python values *)

None == [t |-> "none"]

Str(s) == [t |-> "str", v |-> s]

List(s) == [t |-> "list", v |-> s]

Dict(f) == [t |-> "dict", v |-> f]

\* bool(v) for the values that occur
Truthy(v) ==
    CASE v.t = "none" -> FALSE
      [] v.t = "str"  -> v.v # ""
      [] v.t = "list" -> Len(v.v) > 0
      [] v.t = "dict" -> DOMAIN v.v # {}

\* d.get(k): the value at k, None when the key is absent
Get(d, k) == IF k \in DOMAIN d THEN d[k] ELSE None

\* d.get(k, default)
GetOr(d, k, default) == IF k \in DOMAIN d THEN d[k] ELSE default

\* the decimal digit d as a character
DigitChar(d) == <<"0", "1", "2", "3", "4", "5", "6", "7", "8", "9">>[d + 1]

RECURSIVE Dec(_)
\* str(n), f"{n}": the decimal digits of n
Dec(n) ==
    IF n < 0 THEN <<"-">> \o Dec(-n)
    ELSE IF n < 10 THEN <<DigitChar(n)>>
    ELSE Dec(n \div 10) \o <<DigitChar(n % 10)>>

---------------------------------------------------------------------------
(* Bounds of the model *)

\* pages the feed holds before it answers with empty pages only
NumPages == 2

\* items a page holds at most (the per_page the requests ask for)
PerPage == 2

\* items of the whole feed at most
MaxItems == 3

\* largest max_pages argument
MaxMaxPages == 3

\* longest list handed to compute_stats on its own
MaxEvents == 3

\* largest total_events handed to the activity ring
MaxTotal == 150

---------------------------------------------------------------------------
(* Configuration *)

\* a str is the sequence of its characters
USERNAME == <<"B", "r", "u", "n", "o", "D", "r", "e", "z", "z", "a">>

\* the year of the run (datetime.now(timezone.utc).year)
CURRENT_YEAR == 2024

---------------------------------------------------------------------------
(* The remote feed *)

\* what an event may carry as created_at; "absent" is an event without the key
CreatedAtKinds ==
    {"absent", "not-a-date", "2023-12-31T23:59:59Z", "2024-06-15T12:00:00Z",
     "2025-01-01T00:00:00Z"}

\* type and payload of the k-th event of the feed
TypeAt(k) ==
    CASE k % 4 = 1 -> Str("PushEvent")
      [] k % 4 = 2 -> Str("PullRequestEvent")
      [] k % 4 = 3 -> Str("IssuesEvent")
      [] OTHER     -> Str("CreateEvent")

PayloadAt(k) ==
    CASE k % 4 = 1 -> Dict([commits |-> List(<<"sha1", "sha2">>)])
      [] k % 4 = 2 -> Dict([action |-> Str("opened")])
      [] k % 4 = 3 -> Dict([action |-> Str("closed")])
      [] OTHER     -> Dict([ref_type |-> Str("repository")])

\* the k-th event of the feed, a dict
MakeEvent(k, c) ==
    LET base == [id |-> Str(Dec(k)), type |-> TypeAt(k), payload |-> PayloadAt(k)]
    IN IF c = "absent" THEN base ELSE base @@ ("created_at" :> Str(c))

RECURSIVE Offset(_, _)
\* the number of items on the pages before page p
Offset(lens, p) == IF p <= 1 THEN 0 ELSE Offset(lens, p - 1) + lens[p - 1]

\* the feed whose items carry the created_at values flat, cut into pages of
\* the lengths lens
FeedOf(flat, lens) ==
    [p \in DOMAIN lens |->
        [j \in 1..lens[p] |-> MakeEvent(Offset(lens, p) + j, flat[Offset(lens, p) + j])]]

\* what the server answers for page p: beyond its last page, the empty list
ServerPage(p) == IF p \in DOMAIN feed THEN feed[p] ELSE <<>>

\* the outcomes of session.get for page p: a response (status and body), or
\* an exception of the transport (the timeout of line 39)
Responses(p) ==
    {[raised |-> FALSE, status_code |-> 200, json |-> ServerPage(p)],
     [raised |-> FALSE, status_code |-> 403, json |-> <<>>],
     [raised |-> TRUE, status_code |-> 0, json |-> <<>>]}

---------------------------------------------------------------------------
(* fetch_events *)

\* the value of an expression that raised ValueError
ValueError == [t |-> "exc", v |-> "ValueError"]

\* created_at.replace("Z", "+00:00") on the timestamps of the feed
replace_Z(s) ==
    CASE s = "2023-12-31T23:59:59Z" -> "2023-12-31T23:59:59+00:00"
      [] s = "2024-06-15T12:00:00Z" -> "2024-06-15T12:00:00+00:00"
      [] s = "2025-01-01T00:00:00Z" -> "2025-01-01T00:00:00+00:00"
      [] OTHER -> s

\* datetime.fromisoformat(s): a datetime, or ValueError for what is no ISO
\* timestamp
fromisoformat(s) ==
    CASE s = "2023-12-31T23:59:59+00:00" -> [t |-> "datetime", year |-> 2023]
      [] s = "2024-06-15T12:00:00+00:00" -> [t |-> "datetime", year |-> 2024]
      [] s = "2025-01-01T00:00:00+00:00" -> [t |-> "datetime", year |-> 2025]
      [] OTHER -> ValueError

\* a fetch_events without the check of line 19
UsernameOk_NoCheck(name) == TRUE

\* line 19: the username passes the check
UsernameOk(name) == name # <<>>

\* a loop over range(1, max_pages + 2)
RangeExhausted_OneMore(p, mp) == p > mp + 1

\* line 34: range(1, max_pages + 1) holds no page p
RangeExhausted(p, mp) == p > mp

\* a fetch_events that fails on server errors only
StatusOk_ServerErrorsOnly(status_code) == status_code < 500

\* line 42: the status the code takes for success
StatusOk(status_code) == status_code = 200

\* a fetch_events that skips the events of earlier years and scans on
ScanDecision_NoEarlyReturn(event, yr) ==
    LET created_at == Get(event, "created_at")
    IN IF ~Truthy(created_at) THEN "continue"
       ELSE LET dt == fromisoformat(replace_Z(created_at.v))
            IN IF dt = ValueError THEN "continue"
               ELSE IF dt.year = yr THEN "append"
               ELSE "continue"

\* a fetch_events that takes an event without a timestamp for the end of
\* the feed
ScanDecision_StopsAtUndated(event, yr) ==
    LET created_at == Get(event, "created_at")
    IN IF ~Truthy(created_at) THEN "return"
       ELSE LET dt == fromisoformat(replace_Z(created_at.v))
            IN IF dt = ValueError THEN "return"
               ELSE IF dt.year = yr THEN "append"
               ELSE IF dt.year < yr THEN "return"
               ELSE "continue"

\* a fetch_events that keeps the events of the target year and later
ScanDecision_KeepsFuture(event, yr) ==
    LET created_at == Get(event, "created_at")
    IN IF ~Truthy(created_at) THEN "continue"
       ELSE LET dt == fromisoformat(replace_Z(created_at.v))
            IN IF dt = ValueError THEN "continue"
               ELSE IF dt.year >= yr THEN "append"
               ELSE "return"

\* lines 52-66: what the inner loop does with one event, for the target
\* year yr: "continue" (skip it), "append" or "return"
ScanDecision(event, yr) ==
    LET created_at == Get(event, "created_at")
    IN IF ~Truthy(created_at) THEN "continue"
       ELSE LET dt == fromisoformat(replace_Z(created_at.v))
            IN IF dt = ValueError THEN "continue"
               ELSE IF dt.year = yr THEN "append"
               ELSE IF dt.year < yr THEN "return"
               ELSE "continue"

\* lines 19-32: the check of the username, then the set-up of the loop
FetchValidate ==
    /\ pc = "fetch_entry"
    /\ IF UsernameOk(username)
       THEN /\ pc' = "fetch_loop"
            /\ page' = 1
            /\ events_for_year' = <<>>
            /\ error' = error
       ELSE /\ pc' = "raised"
            /\ error' = "ValueError"
            /\ UNCHANGED <<page, events_for_year>>
    /\ UNCHANGED <<username, year, max_pages, feed, page_events, idx, requests,
                   events, stats, i, file, total, ring>>

\* lines 34-49 and 68: the head of the page loop: the request of the next
\* page and what its response leads to, or the return when the range is
\* exhausted
FetchRequest ==
    /\ pc = "fetch_loop"
    /\ IF RangeExhausted(page, max_pages)
       THEN /\ pc' = "compute_stats"
            /\ events' = events_for_year
            /\ UNCHANGED <<requests, page_events, idx, error>>
       ELSE \E resp \in Responses(page) :
            /\ requests' = Append(requests, [page |-> page, per_page |-> PerPage,
                                             raised |-> resp.raised,
                                             status_code |-> resp.status_code])
            /\ IF resp.raised
               THEN /\ pc' = "raised"
                    /\ error' = "RequestException"
                    /\ UNCHANGED <<page_events, idx, events>>
               ELSE IF ~StatusOk(resp.status_code)
               THEN /\ pc' = "raised"
                    /\ error' = "RuntimeError"
                    /\ UNCHANGED <<page_events, idx, events>>
               ELSE /\ page_events' = resp.json
                    /\ error' = error
                    /\ IF resp.json = <<>>
                       THEN /\ pc' = "compute_stats"
                            /\ events' = events_for_year
                            /\ idx' = idx
                       ELSE /\ pc' = "fetch_scan"
                            /\ idx' = 1
                            /\ events' = events
    /\ UNCHANGED <<username, year, max_pages, feed, page, events_for_year,
                   stats, i, file, total, ring>>

\* lines 51-66: one iteration of the loop over the events of the page
FetchScan ==
    /\ pc = "fetch_scan"
    /\ LET event == page_events[idx]
           what == ScanDecision(event, year)
       IN IF what = "return"
          THEN /\ pc' = "compute_stats"
               /\ events' = events_for_year
               /\ UNCHANGED <<events_for_year, idx, page>>
          ELSE /\ events_for_year' =
                     IF what = "append" THEN Append(events_for_year, event)
                     ELSE events_for_year
               /\ events' = events
               /\ IF idx < Len(page_events)
                  THEN /\ idx' = idx + 1
                       /\ pc' = "fetch_scan"
                       /\ page' = page
                  ELSE /\ idx' = idx
                       /\ pc' = "fetch_loop"
                       /\ page' = page + 1
    /\ UNCHANGED <<username, year, max_pages, feed, page_events, requests,
                   error, stats, i, file, total, ring>>

---------------------------------------------------------------------------
(* compute_stats *)

\* lines 75-82
ZeroStats ==
    [total_events |-> 0, push_events |-> 0, commits |-> 0,
     pull_requests_abertos |-> 0, issues_abertas |-> 0, repos_criados |-> 0]

\* line 87 without its "or {}": a null payload stays None
PayloadOf_NoDefault(event) == GetOr(event, "payload", Dict(<<>>))

\* line 87: event.get("payload", {}) or {}
PayloadOf(event) ==
    LET p == GetOr(event, "payload", Dict(<<>>))
    IN IF Truthy(p) THEN p ELSE Dict(<<>>)

\* payload.get(k): only a dict has .get
PayloadGet(payload, k) ==
    IF payload.t = "dict" THEN Get(payload.v, k)
    ELSE [t |-> "exc", v |-> "AttributeError"]

\* line 92: payload.get("commits") or []
CommitsOf(payload) ==
    LET c == PayloadGet(payload, "commits")
    IN IF c.t = "exc" THEN c ELSE IF Truthy(c) THEN c ELSE List(<<>>)

\* lines 85-105: whether the body of the loop raises on this event: a
\* .get on a payload that is no dict, or len() of commits that have none
StepRaises(event) ==
    LET ev_type == Get(event, "type")
        payload == PayloadOf(event)
    IN \/ /\ ev_type \in {Str("PushEvent"), Str("PullRequestEvent"),
                          Str("IssuesEvent"), Str("CreateEvent")}
          /\ payload.t # "dict"
       \/ /\ ev_type = Str("PushEvent")
          /\ CommitsOf(payload).t \notin {"list", "str", "dict"}

\* len(v)
LenOf(v) == IF v.t = "dict" THEN Cardinality(DOMAIN v.v) ELSE Len(v.v)

\* a loop body that assigns the commits of the push (= for += in line 93)
StepStats_CommitsAssigned(st, event) ==
    LET ev_type == Get(event, "type")
        payload == PayloadOf(event)
        is_push == ev_type = Str("PushEvent")
        is_pr   == /\ ev_type = Str("PullRequestEvent")
                   /\ PayloadGet(payload, "action") = Str("opened")
        is_iss  == /\ ev_type = Str("IssuesEvent")
                   /\ PayloadGet(payload, "action") = Str("opened")
        is_repo == /\ ev_type = Str("CreateEvent")
                   /\ PayloadGet(payload, "ref_type") = Str("repository")
    IN [total_events |-> st.total_events + 1,
        push_events |-> st.push_events + (IF is_push THEN 1 ELSE 0),
        commits |-> IF is_push THEN LenOf(CommitsOf(payload)) ELSE st.commits,
        pull_requests_abertos |-> st.pull_requests_abertos + (IF is_pr THEN 1 ELSE 0),
        issues_abertas |-> st.issues_abertas + (IF is_iss THEN 1 ELSE 0),
        repos_criados |-> st.repos_criados + (IF is_repo THEN 1 ELSE 0)]

\* lines 85-105: the counters after the body of the loop ran on one event
StepStats(st, event) ==
    LET ev_type == Get(event, "type")
        payload == PayloadOf(event)
        is_push == ev_type = Str("PushEvent")
        is_pr   == /\ ev_type = Str("PullRequestEvent")
                   /\ PayloadGet(payload, "action") = Str("opened")
        is_iss  == /\ ev_type = Str("IssuesEvent")
                   /\ PayloadGet(payload, "action") = Str("opened")
        is_repo == /\ ev_type = Str("CreateEvent")
                   /\ PayloadGet(payload, "ref_type") = Str("repository")
    IN [total_events |-> st.total_events + 1,
        push_events |-> st.push_events + (IF is_push THEN 1 ELSE 0),
        commits |-> st.commits + (IF is_push THEN LenOf(CommitsOf(payload)) ELSE 0),
        pull_requests_abertos |-> st.pull_requests_abertos + (IF is_pr THEN 1 ELSE 0),
        issues_abertas |-> st.issues_abertas + (IF is_iss THEN 1 ELSE 0),
        repos_criados |-> st.repos_criados + (IF is_repo THEN 1 ELSE 0)]

RECURSIVE FoldStats(_, _)
\* the counters after the loop of line 84 ran over all of evs, from st
FoldStats(st, evs) ==
    IF evs = <<>> THEN st ELSE FoldStats(StepStats(st, Head(evs)), Tail(evs))

\* lines 75-82: the counters start at zero
ComputeStatsInit ==
    /\ pc = "compute_stats"
    /\ stats' = ZeroStats
    /\ i' = 1
    /\ pc' = "stats_loop"
    /\ UNCHANGED <<username, year, max_pages, feed, page, page_events, idx,
                   events_for_year, requests, error, events, file, total, ring>>

\* lines 84-105: one iteration of the loop over the events
ComputeStatsStep ==
    /\ pc = "stats_loop"
    /\ i <= Len(events)
    /\ IF StepRaises(events[i])
       THEN /\ pc' = "raised"
            /\ error' = "TypeError"
            /\ UNCHANGED <<stats, i>>
       ELSE /\ stats' = StepStats(stats, events[i])
            /\ i' = i + 1
            /\ UNCHANGED <<pc, error>>
    /\ UNCHANGED <<username, year, max_pages, feed, page, page_events, idx,
                   events_for_year, requests, events, file, total, ring>>

\* line 107: the loop is over and the counters are returned
ComputeStatsReturn ==
    /\ pc = "stats_loop"
    /\ i > Len(events)
    /\ pc' = "generate_svg"
    /\ UNCHANGED <<username, year, max_pages, feed, page, page_events, idx,
                   events_for_year, requests, error, events, stats, i, file,
                   total, ring>>

---------------------------------------------------------------------------
(* generate_svg *)

\* the three digits of n, 0 <= n < 1000, zero-padded
Pad3(n) ==
    <<DigitChar(n \div 100), DigitChar((n \div 10) % 10), DigitChar(n % 10)>>

RECURSIVE FormatComma(_)
\* f"{n:,}": the decimal digits of n with a comma between groups of three
FormatComma(n) ==
    IF n < 0 THEN <<"-">> \o FormatComma(-n)
    ELSE IF n < 1000 THEN Dec(n)
    ELSE FormatComma(n \div 1000) \o <<",">> \o Pad3(n % 1000)

\* s.replace(a, b) for single characters a and b
Replace(s, a, b) == [k \in DOMAIN s |-> IF s[k] = a THEN b ELSE s[k]]

\* a fmt without the .replace of line 124
fmt_Commas(n) == FormatComma(n)

\* lines 122-124
fmt(n) == Replace(FormatComma(n), ",", ".")

\* lines 126-222: the document, a sequence of characters.  The text of the
\* template between two substitutions is kept as one element.
SvgDocument(st, name, yr) ==
    <<"<svg ...><title id='title'>GitHub stats ">> \o Dec(yr)
    \o <<" de ">> \o name
    \o <<"</title><desc id='desc'>... repositorios criados em ">> \o Dec(yr)
    \o <<".</desc><style>...</style><rect/><rect/><rect/><g><text class='title'>GitHub Stats ">>
    \o Dec(yr)
    \o <<"</text><text class='subtitle' y='18'>@">> \o name
    \o <<" . eventos publicos</text></g><g><circle/><text class='label'>Eventos no ano</text><text class='value'>">>
    \o fmt(st.total_events)
    \o <<"</text><circle/><text class='label'>Commits (PushEvent)</text><text class='value'>">>
    \o fmt(st.commits)
    \o <<"</text><circle/><text class='label'>Push events</text><text class='value'>">>
    \o fmt(st.push_events)
    \o <<"</text><circle/><text class='label'>PRs abertos</text><text class='value'>">>
    \o fmt(st.pull_requests_abertos)
    \o <<"</text><circle/><text class='label'>Issues abertas</text><text class='value'>">>
    \o fmt(st.issues_abertas)
    \o <<"</text><circle/><text class='label'>Repositorios criados</text><text class='value'>">>
    \o fmt(st.repos_criados)
    \o <<"</text></g><g><text class='small'>...</text></g></svg>">>

\* lines 110-224: the document is written to the output file
GenerateSvg ==
    /\ pc = "generate_svg"
    /\ file' = SvgDocument(stats, username, year)
    /\ pc' = "done"
    /\ UNCHANGED <<username, year, max_pages, feed, page, page_events, idx,
                   events_for_year, requests, error, events, stats, i, total,
                   ring>>

---------------------------------------------------------------------------
(* The run of main *)

RECURSIVE SumLens(_, _)
\* the number of items on the first p pages
SumLens(lens, p) == IF p = 0 THEN 0 ELSE SumLens(lens, p - 1) + lens[p]

\* the feeds of the model
Feeds ==
    {FeedOf(flat, lens) :
        <<flat, lens>> \in
            UNION {{<<f, l>> : f \in [1..n -> CreatedAtKinds],
                               l \in {l \in [1..NumPages -> 0..PerPage] :
                                         SumLens(l, NumPages) = n}} :
                   n \in 0..MaxItems}}

\* lines 227-236: main calls fetch_events(USERNAME, CURRENT_YEAR); the model
\* also starts it with an empty username and with every max_pages
Init ==
    /\ username \in {USERNAME, <<>>}
    /\ year = CURRENT_YEAR
    /\ max_pages \in 0..MaxMaxPages
    /\ feed \in Feeds
    /\ pc = "fetch_entry"
    /\ page = 0
    /\ page_events = <<>>
    /\ idx = 0
    /\ events_for_year = <<>>
    /\ requests = <<>>
    /\ error = "none"
    /\ events = <<>>
    /\ stats = ZeroStats
    /\ i = 0
    /\ file = <<>>
    /\ total = 0
    /\ ring = [drawn |-> FALSE]

Next ==
    \/ FetchValidate
    \/ FetchRequest
    \/ FetchScan
    \/ ComputeStatsInit
    \/ ComputeStatsStep
    \/ ComputeStatsReturn
    \/ GenerateSvg

Spec == Init /\ [][Next]_vars

\* the run under the scheduling of a sequential program: a step that can be
\* taken is taken
FairSpec == Spec /\ WF_vars(Next)

---------------------------------------------------------------------------
(* compute_stats on its own *)

\* events as the feed delivers them: the four tracked types with the
\* payloads that count and that do not, a push without commits, with a null
\* and with a missing payload, an untracked type and an event without type
StatsEvents ==
    {[type |-> Str("PushEvent"), payload |-> Dict([commits |-> List(<<"sha1", "sha2">>)])],
     [type |-> Str("PushEvent"), payload |-> Dict([commits |-> None])],
     [type |-> Str("PushEvent"), payload |-> None],
     [type |-> Str("PushEvent")],
     [type |-> Str("PullRequestEvent"), payload |-> Dict([action |-> Str("opened")])],
     [type |-> Str("PullRequestEvent"), payload |-> Dict([action |-> Str("closed")])],
     [type |-> Str("IssuesEvent"), payload |-> Dict([action |-> Str("opened")])],
     [type |-> Str("CreateEvent"), payload |-> Dict([ref_type |-> Str("repository")])],
     [type |-> Str("CreateEvent"), payload |-> Dict([ref_type |-> Str("branch")])],
     [type |-> Str("WatchEvent"), payload |-> Dict(<<>>)],
     [payload |-> None]}

\* compute_stats is called on a list of at most MaxEvents events
StatsInit ==
    /\ events \in UNION {[1..n -> StatsEvents] : n \in 0..MaxEvents}
    /\ pc = "compute_stats"
    /\ username = USERNAME
    /\ year = CURRENT_YEAR
    /\ max_pages = 0
    /\ feed = <<>>
    /\ page = 0
    /\ page_events = <<>>
    /\ idx = 0
    /\ events_for_year = <<>>
    /\ requests = <<>>
    /\ error = "none"
    /\ stats = ZeroStats
    /\ i = 0
    /\ file = <<>>
    /\ total = 0
    /\ ring = [drawn |-> FALSE]

StatsNext ==
    \/ ComputeStatsInit
    \/ ComputeStatsStep
    \/ ComputeStatsReturn

StatsSpec == StatsInit /\ [][StatsNext]_vars

---------------------------------------------------------------------------
(* generate_svg on its own *)

\* values of total_events and commits
CounterSamples == {0, 7, 999, 1000, 12345, 1234567}

\* values of the four other counters
SmallSamples == {0, 3, 1000}

\* counters compute_stats can return: an event counts for one type at most,
\* and commits come with pushes
StatsSamples ==
    {st \in [total_events : CounterSamples, commits : CounterSamples,
             push_events : SmallSamples, pull_requests_abertos : SmallSamples,
             issues_abertas : SmallSamples, repos_criados : SmallSamples] :
        /\ st.push_events + st.pull_requests_abertos + st.issues_abertas
              + st.repos_criados <= st.total_events
        /\ st.commits > 0 => st.push_events > 0}

\* generate_svg is called on counters, a username and a year
SvgInit ==
    /\ stats \in StatsSamples
    /\ username \in {USERNAME, <<"o", "c", "t", "o", "-", "1">>}
    /\ year \in {CURRENT_YEAR, 1999}
    /\ pc = "generate_svg"
    /\ max_pages = 0
    /\ feed = <<>>
    /\ page = 0
    /\ page_events = <<>>
    /\ idx = 0
    /\ events_for_year = <<>>
    /\ requests = <<>>
    /\ error = "none"
    /\ events = <<>>
    /\ i = 0
    /\ file = <<>>
    /\ total = 0
    /\ ring = [drawn |-> FALSE]

SvgNext == GenerateSvg

SvgSpec == SvgInit /\ [][SvgNext]_vars

---------------------------------------------------------------------------
(* The activity ring of the card: the renderer variant of the design with a
   progress indicator.  percent and the arc are kept as exact fractions:
   percent = percent_num / percent_den, and the dash offset (the unfilled
   arc) is offset_num / percent_den of the circumference. *)

\* the reference scale of the activity ratio
ActivityReferenceScale == 100

\* an activity ratio without the clamp
ActivityPercentNum_Unclamped(n) == n

\* the numerator of percent = clamp(total / scale, 0, 1) over the scale
ActivityPercentNum(n) ==
    IF n < 0 THEN 0
    ELSE IF n > ActivityReferenceScale THEN ActivityReferenceScale
    ELSE n

\* the indicator for total_events = n: percent, the unfilled arc
\* circumference * (1 - percent) and the label int(percent * 100)
ActivityRing(n) ==
    [drawn |-> TRUE,
     percent_num |-> ActivityPercentNum(n),
     percent_den |-> ActivityReferenceScale,
     offset_num |-> ActivityReferenceScale - ActivityPercentNum(n),
     label |-> (ActivityPercentNum(n) * 100) \div ActivityReferenceScale]

\* the renderer draws the indicator
RenderActivity ==
    /\ pc = "render_activity"
    /\ ring' = ActivityRing(total)
    /\ pc' = "done"
    /\ UNCHANGED <<username, year, max_pages, feed, page, page_events, idx,
                   events_for_year, requests, error, events, stats, i, file,
                   total>>

\* the renderer is handed a total_events of at most MaxTotal
RingInit ==
    /\ total \in 0..MaxTotal
    /\ pc = "render_activity"
    /\ username = USERNAME
    /\ year = CURRENT_YEAR
    /\ max_pages = 0
    /\ feed = <<>>
    /\ page = 0
    /\ page_events = <<>>
    /\ idx = 0
    /\ events_for_year = <<>>
    /\ requests = <<>>
    /\ error = "none"
    /\ events = <<>>
    /\ stats = ZeroStats
    /\ i = 0
    /\ file = <<>>
    /\ ring = [drawn |-> FALSE]

RingNext == RenderActivity

RingSpec == RingInit /\ [][RingNext]_vars

---------------------------------------------------------------------------
(* What the properties of fetch_events speak of *)

\* the year an event is dated in, read off its created_at; 0 when it has
\* none or one that is no timestamp
ItemYear(e) ==
    IF "created_at" \notin DOMAIN e THEN 0
    ELSE CASE e["created_at"] = Str("2023-12-31T23:59:59Z") -> 2023
           [] e["created_at"] = Str("2024-06-15T12:00:00Z") -> 2024
           [] e["created_at"] = Str("2025-01-01T00:00:00Z") -> 2025
           [] OTHER -> 0

Dated(e) == ItemYear(e) # 0

Older(e) == Dated(e) /\ ItemYear(e) < year

Future(e) == Dated(e) /\ ItemYear(e) > year

InTargetYear(e) == ItemYear(e) = year

RECURSIVE Concat(_, _)
\* the items of the first n pages of the feed, in feed order
Concat(pages, n) ==
    IF n <= 0 THEN <<>>
    ELSE Concat(pages, n - 1) \o (IF n \in DOMAIN pages THEN pages[n] ELSE <<>>)

FeedItems == Concat(feed, Len(feed))

\* the dated items of the feed come newest first
FeedSorted ==
    \A a, b \in DOMAIN FeedItems :
        (a < b /\ Dated(FeedItems[a]) /\ Dated(FeedItems[b]))
            => ItemYear(FeedItems[a]) >= ItemYear(FeedItems[b])

\* the first page the server answers with no items
FirstEmptyPage ==
    CHOOSE p \in 1..(Len(feed) + 1) :
        /\ ServerPage(p) = <<>>
        /\ \A q \in 1..(p - 1) : ServerPage(q) # <<>>

\* fetch_events is running
InFetch == pc \in {"fetch_entry", "fetch_loop", "fetch_scan"}

\* fetch_events returned to main
FetchReturned == ~InFetch /\ pc # "raised"

\* the item the inner loop stands at (or stood at when the function
\* returned) is dated before the target year
OlderAtCursor == idx \in DOMAIN page_events /\ Older(page_events[idx])

\* some page request was answered with a status other than 200
SomeStatusFailed ==
    \E k \in DOMAIN requests : ~requests[k].raised /\ requests[k].status_code # 200

---------------------------------------------------------------------------
(* fetch_events: early termination *)

\* C1: with a feed sorted newest first, no event dated before the target
\* year is in the accumulated or the returned list, and from the item dated
\* before the target year on, no page is requested and the scan does not
\* move: neither within the page nor to a later page.
C1_StopsAtOlderItem ==
    /\ [](FeedSorted =>
            /\ \A k \in DOMAIN events_for_year : ~Older(events_for_year[k])
            /\ \A k \in DOMAIN events : ~Older(events[k]))
    /\ [][(FeedSorted /\ OlderAtCursor) =>
            /\ requests' = requests
            /\ idx' = idx
            /\ page' = page
            /\ page_events' = page_events
            /\ ~InFetch']_vars

\* C1: the function returned at an item dated before the target year, with
\* events accumulated, items of the page left unscanned and pages left
\* unrequested
C1_Witness ==
    /\ FeedSorted
    /\ OlderAtCursor
    /\ pc = "done"
    /\ events # <<>>
    /\ Len(requests) < max_pages
    /\ Len(requests) < Len(feed)

\* C1: as C1_StopsAtOlderItem with a witness inside a page
C1_WitnessMidPage ==
    /\ FeedSorted
    /\ OlderAtCursor
    /\ pc = "done"
    /\ idx < Len(page_events)

---------------------------------------------------------------------------
(* fetch_events: failures *)

\* C2: once a page request was answered with a status other than 200, the
\* run has ended in RuntimeError: main holds no list of events, compute_stats
\* and generate_svg did not start, and no file is written.
C2_FailedStatusFailsAll ==
    SomeStatusFailed =>
        /\ pc = "raised"
        /\ error = "RuntimeError"
        /\ events = <<>>
        /\ i = 0
        /\ stats = ZeroStats
        /\ file = <<>>

\* C2: a request after the first was answered 403 when events of the target
\* year had been accumulated
C2_Witness ==
    /\ SomeStatusFailed
    /\ Len(requests) >= 2
    /\ events_for_year # <<>>
    /\ pc = "raised"

\* C3: with an empty username the run never requests a page, and once the
\* check of line 19 ran it has ended in ValueError.
C3_EmptyUsernameFailsFirst ==
    username = <<>> =>
        /\ requests = <<>>
        /\ pc \in {"fetch_entry", "raised"}
        /\ pc = "raised" => error = "ValueError"
        /\ events = <<>>

\* C3: the run ended on the empty username, with pages allowed and a feed
\* that holds items
C3_Witness ==
    /\ username = <<>>
    /\ pc = "raised"
    /\ max_pages = MaxMaxPages
    /\ FeedItems # <<>>

---------------------------------------------------------------------------
(* fetch_events: pagination *)

\* the first max_pages pages all hold items, none of them dated before the
\* target year
NothingStopsBeforeCap ==
    /\ max_pages >= 1
    /\ \A p \in 1..max_pages : ServerPage(p) # <<>>
    /\ \A k \in DOMAIN Concat(feed, max_pages) : ~Older(Concat(feed, max_pages)[k])

\* every page request so far was answered 200
AllAnswered ==
    \A k \in DOMAIN requests : ~requests[k].raised /\ requests[k].status_code = 200

\* C8: fetch_events ends; the pages it requests are 1, 2, 3, ... in this
\* order and at most max_pages of them; and when the first max_pages pages
\* were all answered and none of them is empty or holds an item dated before
\* the target year, it returns, without an error, the events of the target
\* year of these pages.
C8_PaginationEnds ==
    /\ <>(~InFetch)
    /\ [](/\ Len(requests) <= max_pages
          /\ \A k \in DOMAIN requests : requests[k].page = k)
    /\ []((~InFetch /\ NothingStopsBeforeCap /\ AllAnswered /\ username # <<>>) =>
            /\ error = "none"
            /\ Len(requests) = max_pages
            /\ events = SelectSeq(Concat(feed, max_pages), InTargetYear))

\* C8: the function returned at the ceiling of two pages or more while the
\* feed holds a further page, with events accumulated
C8_Witness ==
    /\ pc = "done"
    /\ NothingStopsBeforeCap
    /\ AllAnswered
    /\ max_pages >= 2
    /\ Len(requests) = max_pages
    /\ events # <<>>

---------------------------------------------------------------------------
(* fetch_events: items without a usable timestamp *)

\* the event has no created_at, or one that is no timestamp
Undated(e) ==
    \/ "created_at" \notin DOMAIN e
    \/ e["created_at"] = Str("not-a-date")

\* C9: the step of the inner loop on an item whose created_at is missing or
\* unparsable adds nothing to the accumulated list, raises nothing and does
\* not return: the scan goes on with the next item of the page, or after
\* the last item with the next page.
C9_UndatedItemSkipped ==
    [][(pc = "fetch_scan" /\ Undated(page_events[idx])) =>
         /\ events_for_year' = events_for_year
         /\ error' = "none"
         /\ IF idx < Len(page_events)
            THEN pc' = "fetch_scan" /\ idx' = idx + 1 /\ page' = page
            ELSE pc' = "fetch_loop" /\ page' = page + 1]_vars

\* C9: the run ended with an event that stood behind an item without
\* created_at and behind an unparsable one
C9_Witness ==
    /\ pc = "done"
    /\ Len(FeedItems) >= 3
    /\ "created_at" \notin DOMAIN FeedItems[1]
    /\ "created_at" \in DOMAIN FeedItems[2]
    /\ FeedItems[2]["created_at"] = Str("not-a-date")
    /\ events = <<FeedItems[3]>>

---------------------------------------------------------------------------
(* fetch_events: the result *)

Min(a, b) == IF a < b THEN a ELSE b

\* C10: when the feed is sorted newest first and every request was answered
\* 200, fetch_events returns the events dated in the target year of the
\* pages before the first empty page and within the first max_pages pages,
\* all of them and in feed order.
C10_ReturnsTargetYearItems ==
    (FeedSorted /\ FetchReturned) =>
        events = SelectSeq(Concat(feed, Min(max_pages, FirstEmptyPage - 1)),
                           InTargetYear)

\* C10: the function returned events of a sorted feed that also holds an
\* item of a later year and, where it stopped, one of an earlier year
C10_Witness ==
    /\ FeedSorted
    /\ pc = "done"
    /\ events # <<>>
    /\ \E k \in DOMAIN FeedItems : Future(FeedItems[k])
    /\ OlderAtCursor

\* the same without the order of the feed: this one fails, early
\* termination drops events of the target year behind an older item
C10_AnyOrder ==
    FetchReturned =>
        events = SelectSeq(Concat(feed, Min(max_pages, FirstEmptyPage - 1)),
                           InTargetYear)

---------------------------------------------------------------------------
(* compute_stats *)

\* the list evs in the order perm
Permuted(evs, perm) == [k \in DOMAIN evs |-> evs[perm[k]]]

\* C4: the counters compute_stats returns for a list are the counters of
\* every reordering of the list, and for the empty list they are all zero.
C4_OrderInsensitive ==
    pc = "generate_svg" =>
        /\ \A perm \in Permutations(DOMAIN events) :
               FoldStats(ZeroStats, Permuted(events, perm)) = stats
        /\ events = <<>> => stats = ZeroStats

\* C4: compute_stats returned for three different events, a push with
\* commits among them
C4_Witness ==
    /\ pc = "generate_svg"
    /\ Len(events) = 3
    /\ Cardinality({events[k] : k \in DOMAIN events}) = 3
    /\ stats.commits > 0
    /\ stats.push_events > 1

\* C5: compute_stats raises on no list of events; after each iteration of
\* its loop total_events is the number of events folded so far, push_events
\* is at most total_events and commits is not negative; and it returns with
\* total_events the length of the list.
C5_CountersInvariant ==
    /\ pc # "raised"
    /\ pc = "stats_loop" =>
        /\ stats.total_events = i - 1
        /\ stats.push_events <= stats.total_events
        /\ stats.commits >= 0
    /\ pc = "generate_svg" =>
        /\ stats.total_events = Len(events)
        /\ stats.push_events <= stats.total_events
        /\ stats.commits >= 0

\* C5: compute_stats returned for a list with an event without type, a push
\* with a null payload and a push without payload
C5_Witness ==
    /\ pc = "generate_svg"
    /\ Len(events) = 3
    /\ \E k \in DOMAIN events : "type" \notin DOMAIN events[k]
    /\ \E k \in DOMAIN events :
          /\ "payload" \in DOMAIN events[k]
          /\ events[k]["payload"] = None
          /\ Get(events[k], "type") = Str("PushEvent")
    /\ \E k \in DOMAIN events : "payload" \notin DOMAIN events[k]
    /\ stats.push_events = 2
    /\ stats.commits = 0

---------------------------------------------------------------------------
(* generate_svg *)

\* the sequence sub occurs in doc as a run of consecutive elements
Contains(doc, sub) ==
    \E k \in 0..(Len(doc) - Len(sub)) : SubSeq(doc, k + 1, k + Len(sub)) = sub

\* the counters in the order of the card
CounterNames ==
    {"total_events", "commits", "push_events", "pull_requests_abertos",
     "issues_abertas", "repos_criados"}

\* the decimal digits of n >= 0 in groups of three from the right with a
\* "." between the groups: the j-th character from the right is a "." when
\* j is a multiple of 4, and else the digit of the place j - 1 - (j \div 4)
Grouped(n) ==
    LET d == Len(Dec(n))
        w == d + ((d - 1) \div 3)
    IN [k \in 1..w |->
          LET j == w + 1 - k
          IN IF j % 4 = 0 THEN "."
             ELSE Dec(n)[d + 1 - (j - (j \div 4))]]

---------------------------------------------------------------------------
(* The activity ring *)

\* C7: the activity percent lies in [0, 1]; for total_events = 0 it is 0 and
\* the unfilled arc is the whole circumference; for total_events at or above
\* the reference scale it is 1 and the unfilled arc is nothing.
C7_PercentClamped ==
    ring.drawn =>
        /\ 0 <= ring.percent_num
        /\ ring.percent_num <= ring.percent_den
        /\ total = 0 =>
              /\ ring.percent_num = 0
              /\ ring.offset_num = ring.percent_den
        /\ total >= ActivityReferenceScale =>
              /\ ring.percent_num = ring.percent_den
              /\ ring.offset_num = 0

\* C7: the indicator is drawn for a total_events above the reference scale
C7_Witness ==
    /\ ring.drawn
    /\ total > ActivityReferenceScale

====
